---- MODULE Spec2Model ----
(***************************************************************************)
(* A model of audio2mp3.py: the AudioConverter class (convert_file,        *)
(* _get_bitrate, convert_directory) and main(), over a small filesystem.   *)
(*                                                                         *)
(* A string is a sequence of one-character strings, a path is a sequence   *)
(* of names (pathlib's parts), relative to the working directory <<>>.     *)
(* The external programs ffmpeg and ffprobe are the environment: each run  *)
(* draws their outcome from the outcomes a process can have.               *)
(***************************************************************************)
EXTENDS Integers, Sequences, FiniteSets, TLC

\* ---------------------------------------------------------------- strings

LowerLetters == <<"a","b","c","d","e","f","g","h","i","j","k","l","m",
                  "n","o","p","q","r","s","t","u","v","w","x","y","z">>
UpperLetters == <<"A","B","C","D","E","F","G","H","I","J","K","L","M",
                  "N","O","P","Q","R","S","T","U","V","W","X","Y","Z">>
Digits == <<"0","1","2","3","4","5","6","7","8","9">>

InSeq(c, s) == \E i \in 1..Len(s) : s[i] = c
IndexIn(c, s) == CHOOSE i \in 1..Len(s) : s[i] = c

\* str.lower() and str.upper(), one character at a time
LowerChar(c) == IF InSeq(c, UpperLetters) THEN LowerLetters[IndexIn(c, UpperLetters)] ELSE c
UpperChar(c) == IF InSeq(c, LowerLetters) THEN UpperLetters[IndexIn(c, LowerLetters)] ELSE c
Lower(s) == [i \in 1..Len(s) |-> LowerChar(s[i])]
Upper(s) == [i \in 1..Len(s) |-> UpperChar(s[i])]

\* ord(c) for the characters file names are made of
Ord(c) == IF InSeq(c, LowerLetters) THEN 96 + IndexIn(c, LowerLetters)
          ELSE IF InSeq(c, UpperLetters) THEN 64 + IndexIn(c, UpperLetters)
          ELSE IF InSeq(c, Digits) THEN 47 + IndexIn(c, Digits)
          ELSE 46

\* s < t for Python strings: by code point, a proper prefix first
RECURSIVE StrLess(_, _)
StrLess(s, t) ==
    IF t = <<>> THEN FALSE
    ELSE IF s = <<>> THEN TRUE
    ELSE IF Head(s) = Head(t) THEN StrLess(Tail(s), Tail(t))
    ELSE Ord(Head(s)) < Ord(Head(t))

EndsWith(s, e) == Len(s) >= Len(e) /\ SubSeq(s, Len(s) - Len(e) + 1, Len(s)) = e

\* ------------------------------------------------------------------ paths

\* name.rfind('.'): the last index of a dot, 0 when there is none
RFindDot(name) ==
    IF \E i \in 1..Len(name) : name[i] = "."
    THEN CHOOSE i \in 1..Len(name) :
             name[i] = "." /\ \A j \in (i+1)..Len(name) : name[j] # "."
    ELSE 0

\* PurePath.suffix of a name: from the last dot, unless it leads or ends the name
NameSuffix(name) ==
    LET i == RFindDot(name)
    IN IF 1 < i /\ i < Len(name) THEN SubSeq(name, i, Len(name)) ELSE <<>>

\* PurePath.stem of a name
NameStem(name) ==
    LET i == RFindDot(name)
    IN IF 1 < i /\ i < Len(name) THEN SubSeq(name, 1, i - 1) ELSE name

Name(p) == p[Len(p)]
Parent(p) == SubSeq(p, 1, Len(p) - 1)
Suffix(p) == NameSuffix(Name(p))
Stem(p) == NameStem(Name(p))

\* PurePath.with_suffix(suffix): the old suffix replaced, or the new one appended
WithSuffix(p, suffix) ==
    LET name == Name(p)
        old  == NameSuffix(name)
        base == IF old = <<>> THEN name ELSE SubSeq(name, 1, Len(name) - Len(old))
    IN Append(Parent(p), base \o suffix)

\* PurePath.relative_to(base) for a path under base
RelativeTo(p, base) == SubSeq(p, Len(base) + 1, Len(p))

IsUnder(p, base) == Len(p) > Len(base) /\ SubSeq(p, 1, Len(base)) = base

\* p < q for paths: pathlib compares the lists of parts
RECURSIVE PathLess(_, _)
PathLess(p, q) ==
    IF q = <<>> THEN FALSE
    ELSE IF p = <<>> THEN TRUE
    ELSE IF Head(p) = Head(q) THEN PathLess(Tail(p), Tail(q))
    ELSE StrLess(Head(p), Head(q))

\* sorted(set(...)): the ascending sequence of a set of paths
RECURSIVE SortPaths(_)
SortPaths(S) ==
    IF S = {} THEN <<>>
    ELSE LET m == CHOOSE x \in S : \A y \in S \ {x} : PathLess(x, y)
         IN <<m>> \o SortPaths(S \ {m})

\* ------------------------------------------------------- supported formats

MP3 == <<".","m","p","3">>

SUPPORTED_FORMATS ==
    { MP3, <<".","w","a","v">>, <<".","f","l","a","c">>, <<".","m","4","a">>,
      <<".","a","a","c">>, <<".","o","g","g">>, <<".","o","p","u","s">>,
      <<".","w","m","a">>, <<".","a","i","f","f">>, <<".","a","p","e">>,
      <<".","a","c","3">>, <<".","m","p","2">> }

\* "no path": the None of an optional path argument (no real path has an empty name)
None == << <<>> >>

\* --------------------------------------------------------------- bounds

\* at most this many files in the input tree
MaxFiles == 3

\* ----------------------------------------------------------- the file system

dA == <<"A">>
dB == <<"B">>
dSub == <<"s","u","b">>

InputDir == <<dA>>
OutputRoot == <<dB>>

\* the files the input tree may hold
TreeFiles ==
    { <<dA, <<"a",".","f","l","a","c">> >>,
      <<dA, <<"a",".","w","a","v">> >>,
      <<dA, <<"a",".","m","p","3">> >>,
      <<dA, <<"Z",".","W","A","V">> >>,
      <<dA, <<"c",".","W","a","v">> >>,
      <<dA, <<"n",".","t","x","t">> >>,
      <<dA, <<".","w","a","v">> >>,
      <<dA, dSub, <<"a",".","w","a","v">> >> }

\* what may already exist on the output side: nothing, an earlier output, or
\* a regular file standing where a directory is wanted (B, B/sub)
PreFiles ==
    { {},
      { <<dB>> },
      { <<dB, <<"a",".","m","p","3">> >> },
      { <<dB, dSub>> },
      { <<dB, dSub, <<"a",".","m","p","3">> >> } }

Prefixes(p) == { SubSeq(p, 1, n) : n \in 0..(Len(p) - 1) }
DirsOf(F) == UNION { Prefixes(p) : p \in F }

\* no file stands where another file needs a directory
WellFormed(F) == F \cap DirsOf(F) = {}

\* Path.exists(), Path.is_file(), Path.is_dir()
Exists(fs, p) == p \in fs.files \/ p \in fs.dirs
IsFile(fs, p) == p \in fs.files
IsDir(fs, p) == p \in fs.dirs

\* Path.mkdir(parents=True, exist_ok=True): the directory and its missing
\* ancestors are created; it raises when a regular file stands on the way
MkdirRaises(fs, d) == \E q \in Prefixes(d) \cup {d} : q \in fs.files
Mkdir(fs, d) == [fs EXCEPT !.dirs = @ \cup Prefixes(d) \cup {d}]

\* ------------------------------------------------------- external processes

\* what ffprobe may print
ProbeStdouts ==
    { <<>>,
      <<"\n">>,
      <<"N","/","A","\n">>,
      <<"3","1","9","9","9","9","\n">>,
      <<"3","2","0","0","0","0","\n">> }

\* a run of ffprobe: it exits with rc and stdout, or subprocess.run raises
ProbeOutcomes ==
    [launch : {"ran"}, rc : {0}, stdout : ProbeStdouts]
    \cup [launch : {"ran"}, rc : {1}, stdout : {<<"3","2","0","0","0","0","\n">>}]
    \cup { [launch |-> "oserror", rc |-> 1, stdout |-> <<>>] }

\* a run of ffmpeg: exit status 0 with the output written, a non-zero exit
\* status, or subprocess.run raises
RunOutcomes == {"ok", "fail", "oserror"}

\* ------------------------------------------------------------ _get_bitrate

IsSpace(c) == c \in {" ", "\n", "\t"}

\* str.strip()
RECURSIVE LStrip(_)
LStrip(s) == IF s # <<>> /\ IsSpace(Head(s)) THEN LStrip(Tail(s)) ELSE s
RECURSIVE RStrip(_)
RStrip(s) == IF s # <<>> /\ IsSpace(s[Len(s)]) THEN RStrip(SubSeq(s, 1, Len(s) - 1)) ELSE s
Strip(s) == RStrip(LStrip(s))

AllDigits(s) == s # <<>> /\ \A i \in 1..Len(s) : InSeq(s[i], Digits)

RECURSIVE DigitsValue(_)
DigitsValue(s) ==
    IF s = <<>> THEN 0
    ELSE 10 * DigitsValue(SubSeq(s, 1, Len(s) - 1)) + (IndexIn(s[Len(s)], Digits) - 1)

\* int(s) of a stripped string: an optional sign and decimal digits, a
\* ValueError otherwise
IntParses(s) ==
    IF s # <<>> /\ Head(s) \in {"+", "-"} THEN AllDigits(Tail(s)) ELSE AllDigits(s)
IntValue(s) ==
    IF Head(s) = "-" THEN 0 - DigitsValue(Tail(s))
    ELSE IF Head(s) = "+" THEN DigitsValue(Tail(s))
    ELSE DigitsValue(s)

\* the known bit rate in kbps, or unknown (Python's None)
Kbps(n) == [known |-> TRUE, kbps |-> n]
Unknown == [known |-> FALSE, kbps |-> 0]

\* _get_bitrate without its check of the probe's exit status
GetBitrateIgnoringStatus(probe) ==
    IF probe.launch = "oserror" THEN Unknown
    ELSE IF Strip(probe.stdout) # <<>> /\ IntParses(Strip(probe.stdout))
         THEN Kbps(IntValue(Strip(probe.stdout)) \div 1000)
         ELSE Unknown

\* _get_bitrate: the probe's output // 1000, None on any failure
GetBitrate(probe) ==
    IF probe.launch = "oserror" THEN Unknown
    ELSE IF probe.rc = 0 /\ Strip(probe.stdout) # <<>>
         THEN IF IntParses(Strip(probe.stdout))
              THEN Kbps(IntValue(Strip(probe.stdout)) \div 1000)
              ELSE Unknown
         ELSE Unknown

\* the threshold test with > for >=
Already320Strict(bitrate) == bitrate.known /\ bitrate.kbps # 0 /\ bitrate.kbps > 320

\* "bitrate and bitrate >= 320"
Already320(bitrate) == bitrate.known /\ bitrate.kbps # 0 /\ bitrate.kbps >= 320

\* ------------------------------------------------------------ convert_file

\* the format test done on the end of the name, as the glob does, not on the suffix
IsSupportedByEnding(input_path) ==
    \E ext \in SUPPORTED_FORMATS : EndsWith(Lower(Name(input_path)), ext)

\* "input_path.suffix.lower() not in SUPPORTED_FORMATS", negated
IsSupported(input_path) == Lower(Suffix(input_path)) \in SUPPORTED_FORMATS

\* the output path: the explicit one, or under output_dir, or the sibling
ResolveOutput(output_dir, input_path, output_path) ==
    IF output_path = None
    THEN IF output_dir # None
         THEN Append(output_dir, Stem(input_path) \o MP3)
         ELSE WithSuffix(input_path, MP3)
    ELSE output_path

\* the skip test with the "not" of "not self.overwrite" lost
SkipExistingInverted(outExists, overwrite) == outExists /\ overwrite

\* "output_path.exists() and not self.overwrite"
SkipExisting(outExists, overwrite) == outExists /\ ~overwrite

\* the ffmpeg command line: the input, the output and whether -y is passed
FfmpegCmd(input_path, output_path, overwrite) ==
    [input |-> input_path, output |-> output_path, y |-> overwrite]

\* ffmpeg cannot exit 0 over a directory, nor reading the file it writes
RunPossible(fs, cmd, run) ==
    run = "ok" => (cmd.output \notin fs.dirs /\ cmd.output # cmd.input)

\* the (success, message) of a finished or failed run
RunResult(run, input_path, output_path) ==
    IF run = "ok"
    THEN [success |-> TRUE, kind |-> "converted", about |-> <<Name(input_path), Name(output_path)>>]
    ELSE IF run = "fail"
    THEN [success |-> FALSE, kind |-> "conversion_failed", about |-> <<Name(input_path)>>]
    ELSE [success |-> FALSE, kind |-> "error_converting", about |-> <<Name(input_path)>>]

Failure(kind, about) == [success |-> FALSE, kind |-> kind, about |-> about]
NoResult == [success |-> FALSE, kind |-> "none", about |-> <<>>]

\* what one convert_file call did: whether it raised, its result, the path it
\* resolved, the directory it created, the probe and the ffmpeg run it made,
\* and the file system it left
Outcome(raised, result, out, outExisted, mkdir, probe, ffmpeg, fs) ==
    [raised |-> raised, result |-> result, output |-> out, outExisted |-> outExisted,
     mkdir |-> mkdir, probe |-> probe, ffmpeg |-> ffmpeg, fs |-> fs]

ConvertFile(fs, output_dir, overwrite, input_path, output_path, probe, run) ==
    IF ~Exists(fs, input_path)
    THEN Outcome(FALSE, Failure("not_found", <<Name(input_path)>>), None, FALSE, <<>>, <<>>, <<>>, fs)
    ELSE IF ~IsSupported(input_path)
    THEN Outcome(FALSE, Failure("unsupported", <<Suffix(input_path)>>), None, FALSE, <<>>, <<>>, <<>>, fs)
    ELSE
      LET out == ResolveOutput(output_dir, input_path, output_path)
          existed == Exists(fs, out)
      IN IF MkdirRaises(fs, Parent(out))
         THEN Outcome(TRUE, NoResult, out, existed, <<Parent(out)>>, <<>>, <<>>, fs)
         ELSE
           LET fs1 == Mkdir(fs, Parent(out))
           IN IF SkipExisting(Exists(fs1, out), overwrite)
              THEN IF Lower(Suffix(input_path)) = MP3
                   THEN IF Already320(GetBitrate(probe))
                        THEN Outcome(FALSE, Failure("skipped_320", <<Name(input_path)>>),
                                     out, existed, <<Parent(out)>>, <<probe>>, <<>>, fs1)
                        ELSE Outcome(FALSE, Failure("skipped_exists", <<Name(out)>>),
                                     out, existed, <<Parent(out)>>, <<probe>>, <<>>, fs1)
                   ELSE Outcome(FALSE, Failure("skipped_exists", <<Name(out)>>),
                                out, existed, <<Parent(out)>>, <<>>, <<>>, fs1)
              ELSE
                LET cmd == FfmpegCmd(input_path, out, overwrite)
                    fs2 == IF run = "ok" THEN [fs1 EXCEPT !.files = @ \cup {out}] ELSE fs1
                IN Outcome(FALSE, RunResult(run, input_path, out), out, existed,
                           <<Parent(out)>>, <<>>, <<[cmd |-> cmd, run |-> run]>>, fs2)

\* what the environment gives one call: the answer ffprobe has for the input
\* (asked or not; only an .mp3 input is ever probed), and an outcome of
\* ffmpeg when the call runs it
NoProbe == [launch |-> "oserror", rc |-> 1, stdout |-> <<>>]
ProbeChoices(fs, input_path) ==
    IF Exists(fs, input_path) /\ Lower(Suffix(input_path)) = MP3
    THEN ProbeOutcomes ELSE {NoProbe}
RunChoices(fs, output_dir, overwrite, input_path, output_path) ==
    LET o == ConvertFile(fs, output_dir, overwrite, input_path, output_path, NoProbe, "fail")
    IN IF o.ffmpeg = <<>> THEN {"fail"}
       ELSE { run \in RunOutcomes : RunPossible(fs, o.ffmpeg[1].cmd, run) }

\* ------------------------------------------------------- convert_directory

\* the glob of every supported extension, as written and upper-cased, under
\* input_dir ("**/*" + ext when recursive, "*" + ext otherwise)
GlobAudio(fs, input_dir, recursive) ==
    { p \in fs.files \cup fs.dirs :
        /\ IsUnder(p, input_dir)
        /\ recursive \/ Len(p) = Len(input_dir) + 1
        /\ \E ext \in SUPPORTED_FORMATS :
              EndsWith(Name(p), ext) \/ EndsWith(Name(p), Upper(ext)) }

\* the output path always flattened under the output root
DirOutputPathFlat(output_dir, keep_structure, recursive, input_dir, audio_file) ==
    IF output_dir # None
    THEN Append(output_dir, Stem(audio_file) \o MP3)
    ELSE WithSuffix(audio_file, MP3)

\* the output path convert_directory hands to convert_file
DirOutputPath(output_dir, keep_structure, recursive, input_dir, audio_file) ==
    IF output_dir # None
    THEN IF keep_structure /\ recursive
         THEN output_dir \o WithSuffix(RelativeTo(audio_file, input_dir), MP3)
         ELSE Append(output_dir, Stem(audio_file) \o MP3)
    ELSE WithSuffix(audio_file, MP3)

\* -------------------------------------------------------------------- main

\* _check_ffmpeg with its raise lost
CheckFfmpegNever(which) == FALSE

\* _check_ffmpeg raises when shutil.which finds no ffmpeg
CheckFfmpegRaises(which) == ~which

\* sys.exit(0 if success else 1)
ExitFile(success) == IF success THEN 0 ELSE 1

\* the summary's exit status taken from "successful" instead of "failed"
ExitDirAnySuccess(res) ==
    LET successful == Cardinality({ k \in 1..Len(res) : res[k].success })
    IN IF successful > 0 THEN 0 ELSE 1

\* sys.exit(0 if failed == 0 else 1), failed = len(results) - successful
ExitDir(res) ==
    LET successful == Cardinality({ k \in 1..Len(res) : res[k].success })
        failed == Len(res) - successful
    IN IF failed = 0 THEN 0 ELSE 1

\* the interpreter's exit status after an uncaught exception
ExitUncaught == 1
NotExited == -1

\* ------------------------------------------------------------------- state

VARIABLES
    entry,           \* who runs: main(), or a caller of convert_file / convert_directory
    input,           \* args.input, or the path given to the method
    output_dir,      \* args.output / self.output_dir, None when absent
    overwrite,       \* self.overwrite
    keep_structure,  \* self.keep_structure
    recursive,       \* not args.no_recursive
    fs,              \* the file system: [files, dirs]
    found,           \* whether shutil.which found ffmpeg
    pc,              \* where the run is
    audio_files,     \* convert_directory's sorted candidates
    idx,             \* the candidate the loop is at (enumerate's i)
    results,         \* convert_directory's result list
    calls,           \* the convert_file calls made so far, with what each did
    exit_code        \* main's exit status, NotExited before

vars == <<entry, input, output_dir, overwrite, keep_structure, recursive, fs, found,
          pc, audio_files, idx, results, calls, exit_code>>

config == <<entry, input, output_dir, overwrite, keep_structure, recursive>>

fA(name) == <<dA, name>>
MainInputs == { InputDir, fA(<<"a",".","m","p","3">>), fA(<<"a",".","w","a","v">>),
                fA(<<"n",".","t","x","t">>) }
FileInputs == { fA(<<"a",".","m","p","3">>), fA(<<"c",".","W","a","v">>),
                fA(<<"n",".","t","x","t">>) }
DirInputs == { <<dA, dSub>>, fA(<<"a",".","w","a","v">>) }
\* -o names the output file of a file, the output root of a directory
OutputArgs == { None, OutputRoot, <<dB, <<"a",".","m","p","3">> >> }
OutputDirs == { None, OutputRoot }

\* a run starts with its arguments chosen and some file system; the directory
\* options are read in directory runs only and are left at their defaults
\* when the input names a file
Init ==
    /\ entry \in {"main", "convert_file", "convert_directory"}
    /\ input \in (IF entry = "main" THEN MainInputs
                  ELSE IF entry = "convert_file" THEN FileInputs ELSE DirInputs)
    /\ output_dir \in (IF input \in {InputDir, <<dA, dSub>>} THEN OutputDirs ELSE OutputArgs)
    /\ overwrite \in BOOLEAN
    /\ keep_structure \in (IF input \in {InputDir, <<dA, dSub>>} THEN BOOLEAN ELSE {TRUE})
    /\ recursive \in (IF input \in {InputDir, <<dA, dSub>>} THEN BOOLEAN ELSE {TRUE})
    /\ \E T \in SUBSET TreeFiles, P \in PreFiles, E \in {{}, {InputDir}} :
          /\ Cardinality(T) <= MaxFiles
          /\ WellFormed(T \cup P)
          /\ fs = [files |-> T \cup P, dirs |-> DirsOf(T \cup P) \cup {<<>>} \cup E]
    /\ found = FALSE
    /\ pc = "start"
    /\ audio_files = <<>>
    /\ idx = 0
    /\ results = <<>>
    /\ calls = <<>>
    /\ exit_code = NotExited

\* the record of one convert_file call: its arguments, whether the input
\* existed, the answer ffprobe had for it, and what the call did
Call(inputExisted, input_path, output_path, answer, o) ==
    [input |-> input_path, output_path |-> output_path, inputExisted |-> inputExisted,
     answer |-> answer, raised |-> o.raised,
     result |-> o.result, output |-> o.output, outExisted |-> o.outExisted,
     mkdir |-> o.mkdir, probe |-> o.probe, ffmpeg |-> o.ffmpeg]

\* AudioConverter(...): __init__ stores the options and checks for ffmpeg
Construct ==
    /\ pc = "start"
    /\ \E which \in BOOLEAN :
          /\ found' = which
          /\ pc' = IF CheckFfmpegRaises(which) THEN "raised" ELSE "ready"
          /\ exit_code' = IF CheckFfmpegRaises(which) /\ entry = "main"
                          THEN ExitUncaught ELSE exit_code
    /\ UNCHANGED <<config, fs, audio_files, idx, results, calls>>

\* main, input_path.is_file(): one convert_file call and the exit
MainFile ==
    /\ pc = "ready" /\ entry = "main" /\ IsFile(fs, input)
    /\ LET output_path == IF output_dir # None THEN output_dir ELSE None
       IN \E probe \in ProbeChoices(fs, input),
               run \in RunChoices(fs, output_dir, overwrite, input, output_path) :
               LET o == ConvertFile(fs, output_dir, overwrite, input, output_path, probe, run)
               IN /\ calls' = Append(calls, Call(Exists(fs, input), input, output_path, probe, o))
                  /\ fs' = o.fs
                  /\ pc' = IF o.raised THEN "raised" ELSE "done"
                  /\ exit_code' = IF o.raised THEN ExitUncaught ELSE ExitFile(o.result.success)
    /\ UNCHANGED <<config, found, audio_files, idx, results>>

\* main, neither a file nor a directory
MainMissing ==
    /\ pc = "ready" /\ entry = "main" /\ ~IsFile(fs, input) /\ ~IsDir(fs, input)
    /\ pc' = "done"
    /\ exit_code' = 1
    /\ UNCHANGED <<config, fs, found, audio_files, idx, results, calls>>

\* a caller's convert_file(input, output_path)
CallConvertFile ==
    /\ pc = "ready" /\ entry = "convert_file"
    /\ \E output_path \in OutputArgs :
       \E probe \in ProbeChoices(fs, input),
          run \in RunChoices(fs, output_dir, overwrite, input, output_path) :
            LET o == ConvertFile(fs, output_dir, overwrite, input, output_path, probe, run)
            IN /\ calls' = Append(calls, Call(Exists(fs, input), input, output_path, probe, o))
               /\ fs' = o.fs
               /\ pc' = IF o.raised THEN "raised" ELSE "returned"
    /\ UNCHANGED <<config, found, audio_files, idx, results, exit_code>>

\* convert_directory up to its loop: the early returns, the glob and the sort
ConvertDirectoryBegin ==
    /\ pc = "ready"
    /\ entry = "convert_directory" \/ (entry = "main" /\ ~IsFile(fs, input) /\ IsDir(fs, input))
    /\ IF ~Exists(fs, input)
       THEN /\ results' = <<Failure("dir_not_found", <<Name(input)>>)>>
            /\ pc' = "returned"
            /\ UNCHANGED <<audio_files, idx>>
       ELSE IF ~IsDir(fs, input)
       THEN /\ results' = <<Failure("not_a_directory", <<Name(input)>>)>>
            /\ pc' = "returned"
            /\ UNCHANGED <<audio_files, idx>>
       ELSE IF GlobAudio(fs, input, recursive) = {}
       THEN /\ results' = <<Failure("no_audio_files", <<Name(input)>>)>>
            /\ pc' = "returned"
            /\ UNCHANGED <<audio_files, idx>>
       ELSE /\ audio_files' = SortPaths(GlobAudio(fs, input, recursive))
            /\ idx' = 1
            /\ results' = <<>>
            /\ pc' = "loop"
    /\ UNCHANGED <<config, fs, found, calls, exit_code>>

\* one turn of convert_directory's loop: the output path, the convert_file
\* call, the result appended; the list is returned after the last turn
ConvertDirectoryStep ==
    /\ pc = "loop"
    /\ LET audio_file == audio_files[idx]
           output_path == DirOutputPath(output_dir, keep_structure, recursive, input, audio_file)
       IN \E probe \in ProbeChoices(fs, audio_file),
               run \in RunChoices(fs, output_dir, overwrite, audio_file, output_path) :
               LET o == ConvertFile(fs, output_dir, overwrite, audio_file, output_path, probe, run)
               IN /\ calls' = Append(calls, Call(Exists(fs, audio_file), audio_file, output_path, probe, o))
                  /\ fs' = o.fs
                  /\ IF o.raised
                     THEN /\ pc' = "raised"
                          /\ exit_code' = IF entry = "main" THEN ExitUncaught ELSE exit_code
                          /\ UNCHANGED <<results, idx>>
                     ELSE /\ results' = Append(results, o.result)
                          /\ idx' = idx + 1
                          /\ pc' = IF idx = Len(audio_files) THEN "returned" ELSE "loop"
                          /\ UNCHANGED exit_code
    /\ UNCHANGED <<config, found, audio_files>>

\* main after convert_directory: the summary and the exit
MainSummary ==
    /\ pc = "returned" /\ entry = "main"
    /\ exit_code' = ExitDir(results)
    /\ pc' = "done"
    /\ UNCHANGED <<config, fs, found, audio_files, idx, results, calls>>

Next ==
    \/ Construct
    \/ MainFile
    \/ MainMissing
    \/ CallConvertFile
    \/ ConvertDirectoryBegin
    \/ ConvertDirectoryStep
    \/ MainSummary

Spec == Init /\ [][Next]_vars

\* -------------------------------------------------------------- properties

Calls == { calls[k] : k \in 1..Len(calls) }
Unsupported(p) == Lower(Suffix(p)) \notin SUPPORTED_FORMATS
IsSkip(r) == ~r.success /\ r.kind \in {"skipped_320", "skipped_exists"}
RanFfmpeg(c) == c.ffmpeg # <<>>
InDirectoryRun == audio_files # <<>>

\* C1: a convert_file call whose resolved output path already exists, with
\* overwrite false, returns a skip and never invokes ffmpeg
C1_SkipExistingOutput ==
    \A c \in Calls :
        (c.outExisted /\ ~overwrite) =>
            /\ ~c.raised
            /\ IsSkip(c.result)
            /\ ~RanFfmpeg(c)

C1_Witness ==
    \E c \in Calls :
        /\ c.outExisted /\ ~overwrite
        /\ Lower(Suffix(c.input)) # MP3
        /\ c.result.kind = "skipped_exists"

\* C2: a call on an input with an unsupported extension fails, runs neither
\* ffmpeg nor the probe and creates no directory; the reason is the
\* unsupported format whenever the input file exists
C2_UnsupportedFormat ==
    \A c \in Calls :
        Unsupported(c.input) =>
            /\ ~c.raised
            /\ ~c.result.success
            /\ ~RanFfmpeg(c) /\ c.probe = <<>> /\ c.mkdir = <<>>
            /\ c.inputExisted => c.result = Failure("unsupported", <<Suffix(c.input)>>)

C2_Witness ==
    \E c \in Calls :
        /\ Unsupported(c.input) /\ c.inputExisted
        /\ c.result.kind = "unsupported"

\* C3: a convert_directory run over a directory with candidates ends with one
\* result per candidate, in ascending path order without duplicates, whatever
\* fails for a candidate (creating the output's parent directory included)
C3_OneResultPerCandidate ==
    (InDirectoryRun /\ pc \in {"returned", "done", "raised"}) =>
        /\ Len(results) = Len(audio_files)
        /\ \A k \in 1..Len(audio_files) :
              calls[k].input = audio_files[k] /\ results[k] = calls[k].result
        /\ \A j, k \in 1..Len(audio_files) :
              j < k => PathLess(audio_files[j], audio_files[k])

\* C4: main exits 0 exactly when the file's call succeeded (file mode) or
\* every entry of the result list succeeded (directory mode), and 1 when the
\* input path does not exist
C4_ExitCode ==
    (entry = "main" /\ pc = "done") =>
        /\ exit_code \in {0, 1}
        /\ (results = <<>> /\ calls # <<>>) =>
              (exit_code = 0 <=> calls[1].result.success)
        /\ results # <<>> =>
              (exit_code = 0 <=> \A k \in 1..Len(results) : results[k].success)
        /\ (results = <<>> /\ calls = <<>>) => exit_code = 1
        /\ exit_code = 0 => \A c \in Calls : c.result.success

C4_Witness ==
    /\ entry = "main" /\ pc = "done"
    /\ Len(results) >= 2
    /\ exit_code = 0

\* the probe reports a bit rate of at least 320 kbps
ReportsAtLeast320(a) ==
    /\ a.launch = "ran" /\ a.rc = 0
    /\ IntParses(Strip(a.stdout))
    /\ IntValue(Strip(a.stdout)) >= 320000

\* C5 as stated: an existing .mp3 input for which the probe reports at least
\* 320 kbps, with an existing output, gets the 'already 320kbps' skip for
\* every setting of overwrite and of the output root
C5_AsStated ==
    \A c \in Calls :
        (c.inputExisted /\ Lower(Suffix(c.input)) = MP3
            /\ ReportsAtLeast320(c.answer) /\ c.outExisted)
        => c.result = Failure("skipped_320", <<Name(c.input)>>)

\* C5 amended: the same when overwrite is false, for every output root
C5_Already320WithoutOverwrite ==
    \A c \in Calls :
        (c.inputExisted /\ Lower(Suffix(c.input)) = MP3
            /\ ReportsAtLeast320(c.answer) /\ c.outExisted /\ ~overwrite)
        => /\ c.result = Failure("skipped_320", <<Name(c.input)>>)
           /\ ~RanFfmpeg(c)

C5_Witness ==
    \E c \in Calls :
        /\ Lower(Suffix(c.input)) = MP3 /\ c.outExisted /\ ~overwrite
        /\ output_dir # None
        /\ ReportsAtLeast320(c.answer)
        /\ c.result.kind = "skipped_320"

\* a failed probe: it could not be launched, exited non-zero, or printed
\* nothing or no integer
ProbeFailed(a) ==
    \/ a.launch = "oserror"
    \/ a.rc # 0
    \/ Strip(a.stdout) = <<>>
    \/ ~IntParses(Strip(a.stdout))

\* C6: a call whose probe failed returns the generic 'file exists' skip; it
\* does not raise, does not report 'already 320kbps' and does not run ffmpeg
C6_ProbeFailureIsUnknown ==
    \A c \in Calls :
        (c.probe # <<>> /\ ProbeFailed(c.probe[1])) =>
            /\ ~c.raised
            /\ c.result = Failure("skipped_exists", <<Name(c.output)>>)
            /\ ~RanFfmpeg(c)

C6_Witness ==
    \E c \in Calls :
        /\ c.probe # <<>>
        /\ c.probe[1].rc # 0 /\ c.probe[1].launch = "ran" /\ c.probe[1].stdout # <<>>
        /\ c.result.kind = "skipped_exists"

\* C7: convert_directory hands convert_file, for a candidate, the path under
\* the output root that mirrors the candidate's place in the input directory
\* (structure kept and recursive) or lies directly in the root (otherwise),
\* or, without an output root, the sibling; the name is the stem plus .mp3,
\* and convert_file uses that path as it is
C7_DirectoryOutputPath ==
    InDirectoryRun =>
        \A k \in 1..Len(calls) :
            LET c == calls[k]
                f == audio_files[k]
            IN /\ c.input = f
               /\ Name(c.output_path) = Stem(f) \o MP3
               /\ Parent(c.output_path) =
                     IF output_dir = None THEN Parent(f)
                     ELSE IF keep_structure /\ recursive
                          THEN output_dir \o RelativeTo(Parent(f), input)
                          ELSE output_dir
               /\ c.output # None => c.output = c.output_path

C7_Witness ==
    /\ InDirectoryRun /\ keep_structure /\ recursive
    /\ \E c \in Calls :
          /\ c.input = <<dA, dSub, <<"a",".","w","a","v">> >>
          /\ c.output = <<dB, dSub, <<"a",".","m","p","3">> >>
          /\ c.result.kind = "converted"

\* C8: when ffmpeg is not found, construction raises and nothing else
\* happens: no call, no result, no candidate list; and once construction
\* succeeded, a failure to launch ffmpeg for a file is that file's failure
\* result, not an exception
C8_MissingTranscoder ==
    /\ (pc # "start" /\ ~found) =>
          /\ pc = "raised"
          /\ calls = <<>> /\ results = <<>> /\ audio_files = <<>>
          /\ exit_code # 0
    /\ \A c \in Calls :
          (RanFfmpeg(c) /\ c.ffmpeg[1].run = "oserror") =>
              /\ found
              /\ ~c.raised
              /\ c.result = Failure("error_converting", <<Name(c.input)>>)

C8_Witness ==
    /\ found
    /\ \E c \in Calls :
          /\ RanFfmpeg(c) /\ c.ffmpeg[1].run = "oserror"
          /\ c.result.kind = "error_converting"

\* C9: ffmpeg is never invoked with its output path equal to its input path
C9_NeverInPlace ==
    \A c \in Calls :
        RanFfmpeg(c) => c.ffmpeg[1].cmd.output # c.ffmpeg[1].cmd.input

\* C10: in one convert_directory run, an output written by a successful
\* transcode is not written again by the transcode of a later candidate
C10_NoOutputWrittenTwice ==
    InDirectoryRun =>
        \A j, k \in 1..Len(calls) :
            (j < k /\ RanFfmpeg(calls[j]) /\ calls[j].ffmpeg[1].run = "ok"
                   /\ RanFfmpeg(calls[k]) /\ calls[k].ffmpeg[1].run = "ok")
            => calls[k].ffmpeg[1].cmd.output # calls[j].ffmpeg[1].cmd.output
====
